---- MODULE Spec2Model ----
(***************************************************************************)
(* State-machine model of the SSD detector of pytorch-cv                   *)
(* (src/model/models_zoo/ssd/ssd.py): construction, NMS configuration,     *)
(* train/eval mode and the forward pass with class decoding, box decoding, *)
(* per-class candidate assembly, NMS and post_nms truncation.              *)
(*                                                                         *)
(* Units.  Scores and probabilities are integers in thousandths            *)
(* (ScoreDen), overlap thresholds in hundredths (ThreshDen), box           *)
(* coordinates are integer pixels, stds are tenths (StdDen).  A box        *)
(* offset is <<dx, dy, kw, kh>> where dx, dy are the real offsets in       *)
(* tenths and kw, kh give dw, dh in units of ln(2)/std_w, ln(2)/std_h, so  *)
(* that exp(dw*std_w) = 2^kw exactly.                                      *)
(***************************************************************************)
EXTENDS Integers, Sequences, FiniteSets, TLC

\* net, ctor, fwd: the SSD detector, its constructor frame, its forward call
\* coder: a call of the anchor generator or of the box coder on its own
\* mtg: a MaskTargetGenerator and its forward call
\* api: the call of set_nms, reset_class or anchors in progress on the detector
\* tt: a call of transform_test
\* run: a run of a training or evaluation script
VARIABLES net, ctor, fwd, coder, mtg, api, tt, run

vars == <<net, ctor, fwd, coder, mtg, api, tt, run>>

----------------------------------------------------------------------------
(* Bounds of the model *)

MaxLen == 3
MaxClasses == 2
MaxGrid == 2
MaxAnchors == 4
MaxRows == 8
\* calls of the anchor generator and of the box coder on their own: the side
\* of the largest grid, the largest |dx|, |dy| (tenths) and the largest
\* |dw|, |dh| (units of ln(2)/std)
MaxGenGrid == 4
MaxOff == 1
MaxExp == 1
\* MaskTargetGenerator: images, ROIs of a batch, ground-truth masks per image
\* and foreground classes
MaxImages == 2
MaxRois == 2
MaxGt == 2
MaxMaskClasses == 3
\* transform_test: elements of the iterable passed, and distinct pictures
MaxImgs == 3
MaxPictures == 2
\* base_size of a detector built outside the predefined configurations
MaxBaseSize == 40
\* training and evaluation scripts: processes launched, epochs, batches of
\* a data loader
MaxRanks == 2
MaxEpochs == 2
MaxBatches == 2

----------------------------------------------------------------------------
(* Program constants *)

ScoreDen == 1000
ThreshDen == 100
StdDen == 10

\* MultiPerClassDecoder(len(self.classes) + 1, thresh=0.01): 0.01 in thousandths
ClsThresh == 10

\* stds=(0.1, 0.1, 0.2, 0.2) in tenths
Stds == <<1, 1, 2, 2>>

\* anchor_alloc_size=128 and the floor of the halving, max(asz // 2, 16)
AnchorAllocSize == 128
MinAllocSize == 16

\* defaults of set_nms(nms_thresh=0.45, nms_topk=400, post_nms=100)
DefaultNmsThresh == 45
DefaultNmsTopk == 400
DefaultPostNms == 100

----------------------------------------------------------------------------
(* Small helpers *)

Min(a, b) == IF a <= b THEN a ELSE b
Max(a, b) == IF a >= b THEN a ELSE b

RECURSIVE Pow2(_)
Pow2(k) == IF k <= 0 THEN 1 ELSE 2 * Pow2(k - 1)

\* integer square root of a perfect square
Sqrt(x) == CHOOSE r \in 0..x : r * r = x

CeilDiv(a, b) == (a + b - 1) \div b

RECURSIVE SumSeq(_)
SumSeq(s) == IF s = <<>> THEN 0 ELSE Head(s) + SumSeq(Tail(s))

RECURSIVE Flatten(_)
Flatten(ss) == IF ss = <<>> THEN <<>> ELSE Head(ss) \o Flatten(Tail(ss))

----------------------------------------------------------------------------
(* Configuration inputs of SSD.__init__ *)

\* sizes, steps: the i-th entry of the list a caller passes; only the
\* lengths of the lists vary
SizeTable(i) == 4 * Pow2(2 * (i - 1))
StepTable(i) == 8 * Pow2(i - 1)

\* an aspect ratio is <<numerator, denominator>>
RatioOne == <<1, 1>>
RatioFour == <<4, 1>>
RatioQuarter == <<1, 4>>
RatioLists == {<<RatioOne>>, <<RatioOne, RatioFour>>, <<RatioOne, RatioFour, RatioQuarter>>}

\* ratios argument: isList (a python list, else a tuple), nested (elements
\* are lists; else numbers), elems
\* per-layer lists as in the predefined configurations: one list for the
\* first layer, <<1>> for the others
NestedRatios ==
    {[i \in 1..k |-> IF i = 1 THEN first ELSE <<RatioOne>>] :
        k \in 0..MaxLen, first \in RatioLists}

RatiosInputs ==
    {[isList |-> TRUE, nested |-> TRUE, elems |-> e] : e \in NestedRatios}
    \cup {[isList |-> TRUE, nested |-> FALSE, elems |-> e] : e \in RatioLists}
    \cup {[isList |-> FALSE, nested |-> TRUE, elems |-> <<e>>] : e \in RatioLists}

\* network: TRUE when a base-network name is given, FALSE for None.
\* nFeat: len(features) when a name is given, else the number of outputs of
\* the multi-output network.  nFilt: len(num_filters), -1 for None.
\* With network None the callers pass filters=None and no global_pool, and
\* the multi-output network has at least one output.
CtorArgs ==
    {a \in [network : BOOLEAN, nFeat : 0..MaxLen, nFilt : -1..MaxLen, gp : BOOLEAN,
            lenSizes : 0..(MaxLen + 1), ratios : RatiosInputs, lenSteps : 0..MaxLen] :
        IF a.network THEN a.nFilt >= 0 ELSE (a.nFeat >= 1 /\ a.nFilt = -1 /\ ~a.gp)}

\* nms_thresh (hundredths), nms_topk, post_nms
NmsParams ==
    { <<DefaultNmsThresh, DefaultNmsTopk, DefaultPostNms>>,
      <<25, -1, -1>>, <<25, 2, 2>>,
      <<0, 2, 2>>, <<100, -1, 2>>, <<150, -1, -1>> }

----------------------------------------------------------------------------
(* SSD.__init__ *)

NoNet == [built |-> FALSE]

\* line 108-111
NumLayers(a) ==
    IF ~a.network THEN Len(a.ratios.elems)
    ELSE a.nFeat + a.nFilt - 1 + (IF a.gp THEN 1 ELSE 0)

\* line 113: list(zip(sizes[:-1], sizes[1:]))
ZipSizes(lenSizes) ==
    [i \in 1..Max(lenSizes - 1, 0) |-> <<SizeTable(i), SizeTable(i + 1)>>]

\* line 115-116: ratios * num_layers repeats the flat list num_layers times
RECURSIVE Repeat(_, _)
Repeat(s, n) == IF n <= 0 THEN <<>> ELSE s \o Repeat(s, n - 1)

PropagateRatios(r, numLayers) ==
    IF r.nested THEN r.elems ELSE Repeat(r.elems, numLayers)

\* len(self.features.channel): the outputs of the multi-output network, or
\* of the expanded base network, whose count line 111 takes to be num_layers
NumChannels(a) == IF ~a.network THEN a.nFeat ELSE Max(NumLayers(a), 0)

\* halving without the floor of 16
RECURSIVE AllocSize_NoFloor(_)
AllocSize_NoFloor(i) ==
    IF i <= 1 THEN AnchorAllocSize ELSE AllocSize_NoFloor(i - 1) \div 2

\* line 151, 156: asz = max(asz // 2, 16) after each layer
RECURSIVE AllocSize(_)
AllocSize(i) ==
    IF i <= 1 THEN AnchorAllocSize ELSE Max(AllocSize(i - 1) \div 2, MinAllocSize)

\* line 153: zip stops at the shortest of its four arguments
NumZipped(a) ==
    Min(Min(NumChannels(a), Len(ZipSizes(a.lenSizes))),
        Min(Len(PropagateRatios(a.ratios, NumLayers(a))), a.lenSteps))

\* SSDAnchorGenerator takes a sequence of aspect ratios; a bare number (the
\* element of a propagated flat list) has no length
AnchorGeneratorAccepts(r) == r.nested

\* __init__ without the final assertion num_layers > 0
CtorOutcome_NoPositiveCheck(a) ==
    IF a.lenSizes # NumLayers(a) + 1 THEN "AssertionError"
    ELSE IF ~a.ratios.isList THEN "AssertionError"
    ELSE IF Len(a.ratios.elems) = 0 THEN "IndexError"
    ELSE IF ~(NumLayers(a) = Len(ZipSizes(a.lenSizes))
              /\ Len(ZipSizes(a.lenSizes)) = Len(PropagateRatios(a.ratios, NumLayers(a))))
         THEN "AssertionError"
    ELSE IF NumZipped(a) > 0 /\ ~AnchorGeneratorAccepts(a.ratios) THEN "TypeError"
    ELSE "ok"

\* the exception raised by __init__, "ok" when it returns
CtorOutcome(a) ==
    IF a.lenSizes # NumLayers(a) + 1 THEN "AssertionError"
    ELSE IF ~a.ratios.isList THEN "AssertionError"
    ELSE IF Len(a.ratios.elems) = 0 THEN "IndexError"
    ELSE IF ~(NumLayers(a) = Len(ZipSizes(a.lenSizes))
              /\ Len(ZipSizes(a.lenSizes)) = Len(PropagateRatios(a.ratios, NumLayers(a))))
         THEN "AssertionError"
    ELSE IF ~(NumLayers(a) > 0) THEN "AssertionError"
    ELSE IF NumZipped(a) > 0 /\ ~AnchorGeneratorAccepts(a.ratios) THEN "TypeError"
    ELSE "ok"

\* line 153-159: one anchor generator and one pair of predictors per zipped
\* (channel, size pair, ratio list, step)
BuildLayers(a) ==
    [i \in 1..NumZipped(a) |->
        [size |-> ZipSizes(a.lenSizes)[i],
         ratios |-> PropagateRatios(a.ratios, NumLayers(a))[i],
         step |-> StepTable(i),
         alloc |-> AllocSize(i)]]

BuildNet(a, k, nms) ==
    [built |-> TRUE,
     num_layers |-> NumLayers(a),
     nFeat |-> NumChannels(a),
     layers |-> IF a.ratios.nested THEN BuildLayers(a) ELSE <<>>,
     classes |-> k,
     nms_thresh |-> nms[1], nms_topk |-> nms[2], post_nms |-> nms[3],
     training |-> TRUE]

NoCtor == [state |-> "none"]

SSD_init(a, k, nms) ==
    /\ ctor' = [state |-> CtorOutcome(a), args |-> a]
    /\ net' = IF CtorOutcome(a) = "ok" THEN BuildNet(a, k, nms) ELSE NoNet
    /\ UNCHANGED <<fwd, coder, mtg, api, tt, run>>

\* get_ssd calls the constructor with the configuration it was given
get_ssd ==
    /\ ~net.built
    /\ ctor.state = "none"
    /\ \E a \in CtorArgs, k \in 1..MaxClasses, nms \in NmsParams : SSD_init(a, k, nms)

\* the constructor's frame ends: the caller holds the network or sees the
\* exception
get_ssd_return ==
    /\ ctor.state # "none"
    /\ ctor' = NoCtor
    /\ UNCHANGED <<net, fwd, coder, mtg, api, tt, run>>

----------------------------------------------------------------------------
(* set_nms, train(), eval() *)

\* line 188-211
set_nms(t, k, p) ==
    /\ net.built
    /\ ctor.state = "none"
    /\ fwd.state = "none"
    /\ net' = [net EXCEPT !.nms_thresh = t, !.nms_topk = k, !.post_nms = p]
    /\ UNCHANGED <<ctor, fwd, coder, mtg, tt, run>>

\* a call of set_nms names the arguments it passes (given) and their values
\* (vals, in the order of the signature; 0 where nothing is passed); validate
\* (eval_ssd.py line 53) passes nms_thresh=0.45, nms_topk=400
ValidateSetNms == [given |-> {"nms_thresh", "nms_topk"}, vals |-> <<45, 400, 0>>]

SetNmsCalls ==
    {[given |-> {"nms_thresh", "nms_topk", "post_nms"}, vals |-> nms] : nms \in NmsParams}
    \cup {ValidateSetNms,
          [given |-> {}, vals |-> <<0, 0, 0>>],
          [given |-> {"post_nms"}, vals |-> <<0, 0, 2>>]}

\* python binds a parameter to the value passed, or to the default of the
\* signature (line 188) when it is omitted
BindArg(c, name, i, default) ==
    IF name \in c.given THEN c.vals[i] ELSE default

NoApi == [op |-> "none"]

set_nms_call_KeepOmitted(c) ==
    /\ api.op = "none"
    /\ api' = [op |-> "set_nms", call |-> c]
    /\ set_nms(BindArg(c, "nms_thresh", 1, net.nms_thresh),
               BindArg(c, "nms_topk", 2, net.nms_topk),
               BindArg(c, "post_nms", 3, net.post_nms))

set_nms_call(c) ==
    /\ api.op = "none"
    /\ api' = [op |-> "set_nms", call |-> c]
    /\ set_nms(BindArg(c, "nms_thresh", 1, DefaultNmsThresh),
               BindArg(c, "nms_topk", 2, DefaultNmsTopk),
               BindArg(c, "post_nms", 3, DefaultPostNms))

\* line 250-271: the body of reset_class is its docstring and comments; the
\* list of classes is represented by its length
reset_class(classes) ==
    /\ net.built
    /\ ctor.state = "none"
    /\ fwd.state = "none"
    /\ api.op = "none"
    /\ api' = [op |-> "reset_class", classes |-> classes]
    /\ UNCHANGED <<net, ctor, fwd, coder, mtg, tt, run>>

\* the call returns to its caller
api_return ==
    /\ api.op # "none"
    /\ api' = NoApi
    /\ UNCHANGED <<net, ctor, fwd, coder, mtg, tt, run>>

\* nn.Module.train() / net.eval() as called by validate
SetMode(training) ==
    /\ net.built
    /\ ctor.state = "none"
    /\ fwd.state = "none"
    /\ net.training # training
    /\ net' = [net EXCEPT !.training = training]
    /\ UNCHANGED <<ctor, fwd, coder, mtg, api, tt, run>>

----------------------------------------------------------------------------
(* SSDAnchorGenerator: anchors of one feature level *)

SqrtRatio(r) == <<Sqrt(r[1]), Sqrt(r[2])>>

\* <<width^2, height^2>> of the anchors of one cell: the square at
\* sqrt(s_min*s_max), the square at s_min, and for every ratio r after the
\* first the rectangle s_min*sqrt(r) wide and s_min/sqrt(r) high
CellShapesSq(layer) ==
    << <<layer.size[1] * layer.size[2], layer.size[1] * layer.size[2]>>,
       <<layer.size[1] * layer.size[1], layer.size[1] * layer.size[1]>> >>
    \o [j \in 1..(Len(layer.ratios) - 1) |->
          << (layer.size[1] * layer.size[1] * layer.ratios[j + 1][1])
                \div layer.ratios[j + 1][2],
             (layer.size[1] * layer.size[1] * layer.ratios[j + 1][2])
                \div layer.ratios[j + 1][1] >>]

\* <<width, height>> of the anchors of one cell, for sizes and ratios whose
\* shapes are whole pixels
CellShapes(layer) ==
    << <<Sqrt(layer.size[1] * layer.size[2]), Sqrt(layer.size[1] * layer.size[2])>>,
       <<layer.size[1], layer.size[1]>> >>
    \o [j \in 1..(Len(layer.ratios) - 1) |->
          << (layer.size[1] * SqrtRatio(layer.ratios[j + 1])[1])
                \div SqrtRatio(layer.ratios[j + 1])[2],
             (layer.size[1] * SqrtRatio(layer.ratios[j + 1])[2])
                \div SqrtRatio(layer.ratios[j + 1])[1] >>]

num_depth(layer) == Len(CellShapesSq(layer))

\* generator that walks the grid column by column
AnchorGrid_ColumnMajor(layer, hw) ==
    [i \in 1..(hw[1] * hw[2] * num_depth(layer)) |->
        [row |-> ((i - 1) \div num_depth(layer)) % hw[1],
         col |-> ((i - 1) \div num_depth(layer)) \div hw[1],
         depth |-> ((i - 1) % num_depth(layer)) + 1,
         centre2 |-> << (2 * (((i - 1) \div num_depth(layer)) \div hw[1]) + 1) * layer.step,
                        (2 * (((i - 1) \div num_depth(layer)) % hw[1]) + 1) * layer.step >>,
         sq |-> CellShapesSq(layer)[((i - 1) % num_depth(layer)) + 1]]]

\* the anchors of an h x w grid in centre format, row-major over height,
\* width, then anchor depth: 0-based row and column, 1-based depth, the
\* doubled centre <<2*cx, 2*cy>> and the squared shape
AnchorGrid(layer, hw) ==
    [i \in 1..(hw[1] * hw[2] * num_depth(layer)) |->
        [row |-> ((i - 1) \div num_depth(layer)) \div hw[2],
         col |-> ((i - 1) \div num_depth(layer)) % hw[2],
         depth |-> ((i - 1) % num_depth(layer)) + 1,
         centre2 |-> << (2 * (((i - 1) \div num_depth(layer)) % hw[2]) + 1) * layer.step,
                        (2 * (((i - 1) \div num_depth(layer)) \div hw[2]) + 1) * layer.step >>,
         sq |-> CellShapesSq(layer)[((i - 1) % num_depth(layer)) + 1]]]

\* corner box of the anchor of shape wh centred in cell (row, col), 0-based
AnchorBox(step, row, col, wh) ==
    << ((2 * col + 1) * step - wh[1]) \div 2, ((2 * row + 1) * step - wh[2]) \div 2,
       ((2 * col + 1) * step + wh[1]) \div 2, ((2 * row + 1) * step + wh[2]) \div 2 >>

\* the anchors of the grid as corner boxes
SSDAnchorGenerator(layer, hw) ==
    [i \in 1..Len(AnchorGrid(layer, hw)) |->
        AnchorBox(layer.step, AnchorGrid(layer, hw)[i].row, AnchorGrid(layer, hw)[i].col,
                  CellShapes(layer)[AnchorGrid(layer, hw)[i].depth])]

----------------------------------------------------------------------------
(* NormalizedBoxCenterDecoder *)

\* exp(dw*std_w) * w for dw = k*ln(2)/std_w
Scale2(k, w) == IF k >= 0 THEN Pow2(k) * w ELSE w \div Pow2(-k)

\* decoder that leaves out the multiplication by std_x, std_y
NormalizedBoxCenterDecoder_NoStd(off, a) ==
    LET aw == a[3] - a[1]
        ah == a[4] - a[2]
        acx == (a[1] + a[3]) \div 2
        acy == (a[2] + a[4]) \div 2
        px == (off[1] * aw) \div StdDen + acx
        py == (off[2] * ah) \div StdDen + acy
        pw == Scale2(off[3], aw)
        ph == Scale2(off[4], ah)
    IN  <<px - pw \div 2, py - ph \div 2, px + pw \div 2, py + ph \div 2>>

NormalizedBoxCenterDecoder(off, a) ==
    LET aw == a[3] - a[1]
        ah == a[4] - a[2]
        acx == (a[1] + a[3]) \div 2
        acy == (a[2] + a[4]) \div 2
        px == (off[1] * Stds[1] * aw) \div (StdDen * StdDen) + acx
        py == (off[2] * Stds[2] * ah) \div (StdDen * StdDen) + acy
        pw == Scale2(off[3], aw)
        ph == Scale2(off[4], ah)
    IN  <<px - pw \div 2, py - ph \div 2, px + pw \div 2, py + ph \div 2>>

\* the inverse transform: the offset of box g against anchor a,
\* dx = (gcx - acx) / (std_x * aw), dw = ln(gw / aw) / std_w; NotANumber
\* where the division or the logarithm has no finite value
NotANumber == "nan"

Log2Ratio(g, w) ==
    IF \E k \in -(MaxExp + 2)..(MaxExp + 2) : Scale2(k, w) = g /\ Scale2(-k, g) = w
    THEN CHOOSE k \in -(MaxExp + 2)..(MaxExp + 2) : Scale2(k, w) = g /\ Scale2(-k, g) = w
    ELSE NotANumber

NormalizedBoxCenterEncoder(g, a) ==
    LET aw == a[3] - a[1]
        ah == a[4] - a[2]
        acx == (a[1] + a[3]) \div 2
        acy == (a[2] + a[4]) \div 2
        gw == g[3] - g[1]
        gh == g[4] - g[2]
        gcx == (g[1] + g[3]) \div 2
        gcy == (g[2] + g[4]) \div 2
    IN  << IF aw = 0 THEN NotANumber
           ELSE ((gcx - acx) * StdDen * StdDen) \div (Stds[1] * aw),
           IF ah = 0 THEN NotANumber
           ELSE ((gcy - acy) * StdDen * StdDen) \div (Stds[2] * ah),
           IF aw = 0 \/ gw = 0 THEN NotANumber ELSE Log2Ratio(gw, aw),
           IF ah = 0 \/ gh = 0 THEN NotANumber ELSE Log2Ratio(gh, ah) >>

----------------------------------------------------------------------------
(* MultiPerClassDecoder: prob is a vector over background (index 1) and the *)
(* foreground classes c = 1..C-1 (index c + 1)                              *)

MultiPerClassDecoder(prob, thresh) ==
    [c \in 1..(Len(prob) - 1) |->
        [id |-> IF prob[c + 1] > thresh THEN c ELSE -1, score |-> prob[c + 1]]]

----------------------------------------------------------------------------
(* box_nms *)

\* 100 * area(intersection) >= thresh * area(union), zero-area union is IoU 0
Area(b) == Max(b[3] - b[1], 0) * Max(b[4] - b[2], 0)

Inter(a, b) ==
    Max(Min(a[3], b[3]) - Max(a[1], b[1]), 0) * Max(Min(a[4], b[4]) - Max(a[2], b[2]), 0)

IoUAtLeast(a, b, thresh) ==
    /\ Area(a) + Area(b) - Inter(a, b) > 0
    /\ ThreshDen * Inter(a, b) >= thresh * (Area(a) + Area(b) - Inter(a, b))

\* stable insertion: r goes behind every row whose score is at least r's
RECURSIVE InsertByScore(_, _)
InsertByScore(sorted, r) ==
    IF sorted = <<>> THEN <<r>>
    ELSE IF Head(sorted).score >= r.score
         THEN <<Head(sorted)>> \o InsertByScore(Tail(sorted), r)
         ELSE <<r>> \o sorted

RECURSIVE SortByScore(_, _)
SortByScore(rows, n) ==
    IF n = 0 THEN <<>> ELSE InsertByScore(SortByScore(rows, n - 1), rows[n])

\* greedy pass over the sorted rows: out is the output so far, taken the
\* number of valid rows seen.  A row of class -1 is left alone; a valid row
\* beyond the top k is dropped; a valid row overlapping a kept row of its
\* class is suppressed; every other valid row is kept.
RECURSIVE Suppress(_, _, _, _, _)
Suppress(sorted, out, taken, thresh, topk) ==
    IF Len(out) = Len(sorted) THEN out
    ELSE LET r == sorted[Len(out) + 1]
             hit == \E j \in 1..Len(out) :
                        /\ out[j].id >= 0
                        /\ out[j].id = r.id
                        /\ IoUAtLeast(out[j].box, r.box, thresh)
         IN  IF r.id < 0
             THEN Suppress(sorted, Append(out, r), taken, thresh, topk)
             ELSE IF (topk >= 0 /\ taken >= topk) \/ hit
                  THEN Suppress(sorted, Append(out, [r EXCEPT !.id = -1]),
                                taken + 1, thresh, topk)
                  ELSE Suppress(sorted, Append(out, r), taken + 1, thresh, topk)

box_nms(rows, thresh, topk) ==
    Suppress(SortByScore(rows, Len(rows)), <<>>, 0, thresh, topk)

----------------------------------------------------------------------------
(* SSD.forward *)

\* per-anchor predictions after softmax, background first
ProbVecs(C) ==
    { [i \in 1..C |-> IF i = 1 THEN ScoreDen - 10 * (C - 1) ELSE 10],
      [i \in 1..C |-> IF i = 1 THEN ScoreDen - 300 * (C - 1) ELSE 300],
      [i \in 1..C |-> IF i = 1 THEN ScoreDen - 50 * C * (C - 1) ELSE 100 * (i - 1)] }

\* box predictions of an image: all offsets zero, or the first or the last
\* anchor's box doubled in width and height
ZeroOffset == <<0, 0, 0, 0>>
DoubleOffset == <<0, 0, 1, 1>>
BoxPreds(N) ==
    {[a \in 1..N |-> ZeroOffset]}
    \cup {[a \in 1..N |-> IF a = d THEN DoubleOffset ELSE ZeroOffset] : d \in {1, N}}

ImageSides == {8 * g : g \in 1..MaxGrid}

\* line 214: the backbone's feature maps for an H x W image, level l at
\* stride StepTable(l)
FeatureSizes(n, H, W) ==
    [l \in 1..n.nFeat |-> <<CeilDiv(H, StepTable(l)), CeilDiv(W, StepTable(l))>>]

\* line 216-219, 227-228: zip(features, predictors / anchor_generators)
UsedLevels(n) == Min(n.nFeat, Len(n.layers))

\* box predictor sized by the number of ratios instead of num_depth
BoxPredictorChannels_PerRatio(layer) == Len(layer.ratios) * 4

\* line 157-159: num_anchors = anchor_generator.num_depth; the class
\* predictor has num_anchors * (len(classes) + 1) output channels, the box
\* predictor num_anchors * 4
ClassPredictorChannels(layer, classes) == num_depth(layer) * (classes + 1)
BoxPredictorChannels(layer) == num_depth(layer) * 4

\* line 216-222: rows of the flattened predictions, cat(...).view((b, -1, 4))
NumAnchors(n, feats) ==
    SumSeq([l \in 1..UsedLevels(n) |->
               feats[l][1] * feats[l][2] * BoxPredictorChannels(n.layers[l])]) \div 4

\* line 216-217, 221: rows of cat(...).view((b, -1, num_classes + 1))
NumClsRows(n, feats) ==
    SumSeq([l \in 1..UsedLevels(n) |->
               feats[l][1] * feats[l][2] * ClassPredictorChannels(n.layers[l], n.classes)])
        \div (n.classes + 1)

\* line 218: bp(feat).permute(0, 2, 3, 1).flatten(1), the scalars of a
\* (channels, H, W) prediction in the order height, width, channel
PermuteFlatten(l, hw, channels) ==
    [f \in 1..(hw[1] * hw[2] * channels) |->
        [level |-> l,
         row |-> ((f - 1) \div channels) \div hw[2],
         col |-> ((f - 1) \div channels) % hw[2],
         channel |-> (f - 1) % channels]]

\* line 222: cat(box_preds, dim=1).view((b, -1, 4)); row k of the result is
\* made of four consecutive scalars and stands for the position of the first
BoxPredLayout(n, feats) ==
    [k \in 1..NumAnchors(n, feats) |->
        Flatten([l \in 1..UsedLevels(n) |->
                    PermuteFlatten(l, feats[l], BoxPredictorChannels(n.layers[l]))])
            [4 * (k - 1) + 1]]

\* anchors of the levels concatenated from the last level to the first
ForwardAnchors_ReversedLevels(n, feats) ==
    Flatten([l \in 1..UsedLevels(n) |->
                SSDAnchorGenerator(n.layers[UsedLevels(n) + 1 - l],
                                   feats[UsedLevels(n) + 1 - l])])

\* line 227-229
ForwardAnchors(n, feats) ==
    Flatten([l \in 1..UsedLevels(n) |-> SSDAnchorGenerator(n.layers[l], feats[l])])

\* line 230
ForwardBoxes(boxp, anchors) ==
    [a \in 1..Len(anchors) |-> NormalizedBoxCenterDecoder(boxp[a], anchors[a])]

\* class decoder built with thresh=0.1
ForwardClsDecode_CoarseThresh(probs) ==
    [a \in 1..Len(probs) |-> MultiPerClassDecoder(probs[a], 100)]

\* line 231
ForwardClsDecode(probs) ==
    [a \in 1..Len(probs) |-> MultiPerClassDecoder(probs[a], ClsThresh)]

\* candidates concatenated anchor by anchor instead of class by class
ForwardCandidates_AnchorMajor(n, dec, bboxes) ==
    [r \in 1..(n.classes * Len(bboxes)) |->
        [id |-> dec[((r - 1) \div n.classes) + 1][((r - 1) % n.classes) + 1].id,
         score |-> dec[((r - 1) \div n.classes) + 1][((r - 1) % n.classes) + 1].score,
         box |-> bboxes[((r - 1) \div n.classes) + 1]]]

\* line 232-239: per class column i, the rows of all anchors, concatenated
ForwardCandidates(n, dec, bboxes) ==
    [r \in 1..(n.classes * Len(bboxes)) |->
        [id |-> dec[((r - 1) % Len(bboxes)) + 1][((r - 1) \div Len(bboxes)) + 1].id,
         score |-> dec[((r - 1) % Len(bboxes)) + 1][((r - 1) \div Len(bboxes)) + 1].score,
         box |-> bboxes[((r - 1) % Len(bboxes)) + 1]]]

\* forward that never returns early with the losses
TakesTrainingBranch_Never(n) == FALSE

\* line 223
TakesTrainingBranch(n) == n.training

\* gate that only tests nms_thresh > 0
NmsEnabled_NoUpperBound(n) == n.nms_thresh > 0

\* line 240
NmsEnabled(n) == ThreshDen > n.nms_thresh /\ n.nms_thresh > 0

\* box_nms called without overlap_thresh, so with its default 0.5
ForwardNms_DefaultThresh(n, cand) == box_nms(cand, 50, n.nms_topk)

\* suppressed rows filtered out of the NMS output
ForwardNms_Compact(n, cand) ==
    SelectSeq(box_nms(cand, n.nms_thresh, n.nms_topk), LAMBDA r : r.id >= 0)

\* box_nms called without id_index: every valid row belongs to one class
ForwardNms_ClassAgnostic(n, cand) ==
    LET one == [i \in 1..Len(cand) |->
                   [cand[i] EXCEPT !.id = IF cand[i].id >= 0 THEN 0 ELSE -1]]
        out == box_nms(one, n.nms_thresh, n.nms_topk)
        srt == SortByScore(cand, Len(cand))
    IN  [i \in 1..Len(cand) |-> IF out[i].id >= 0 THEN srt[i] ELSE [srt[i] EXCEPT !.id = -1]]

\* NMS that examines the first topk valid rows and leaves the rows behind
\* them as they are instead of invalidating them
RECURSIVE Suppress_LeaveTail(_, _, _, _, _)
Suppress_LeaveTail(sorted, out, taken, thresh, topk) ==
    IF Len(out) = Len(sorted) THEN out
    ELSE LET r == sorted[Len(out) + 1]
             hit == \E j \in 1..Len(out) :
                        /\ out[j].id >= 0
                        /\ out[j].id = r.id
                        /\ IoUAtLeast(out[j].box, r.box, thresh)
         IN  IF r.id < 0 \/ (topk >= 0 /\ taken >= topk)
             THEN Suppress_LeaveTail(sorted, Append(out, r), taken, thresh, topk)
             ELSE IF hit
                  THEN Suppress_LeaveTail(sorted, Append(out, [r EXCEPT !.id = -1]),
                                          taken + 1, thresh, topk)
                  ELSE Suppress_LeaveTail(sorted, Append(out, r), taken + 1, thresh, topk)

ForwardNms_LeaveTail(n, cand) ==
    Suppress_LeaveTail(SortByScore(cand, Len(cand)), <<>>, 0, n.nms_thresh, n.nms_topk)

\* rows of equal score sorted in descending order of their original index
RECURSIVE InsertByScore_Unstable(_, _)
InsertByScore_Unstable(sorted, r) ==
    IF sorted = <<>> THEN <<r>>
    ELSE IF Head(sorted).score > r.score
         THEN <<Head(sorted)>> \o InsertByScore_Unstable(Tail(sorted), r)
         ELSE <<r>> \o sorted

RECURSIVE SortByScore_Unstable(_, _)
SortByScore_Unstable(rows, n) ==
    IF n = 0 THEN <<>>
    ELSE InsertByScore_Unstable(SortByScore_Unstable(rows, n - 1), rows[n])

ForwardNms_ReverseTies(n, cand) ==
    Suppress(SortByScore_Unstable(cand, Len(cand)), <<>>, 0, n.nms_thresh, n.nms_topk)

\* line 241-242
ForwardNms(n, cand) == box_nms(cand, n.nms_thresh, n.nms_topk)

\* line 243
PostNmsApplies(n) == n.post_nms > 0

\* line 244: narrow(1, 0, post_nms) needs post_nms <= number of rows
NarrowFits(rows, p) == p <= Len(rows)
Narrow(rows, p) == SubSeq(rows, 1, p)

PredCalls == <<"features", "class_predictors", "box_predictors">>
DecodeCalls == <<"anchor_generators", "bbox_decoder", "cls_decoder">>

FwdRec(st, mode, ret, calls) ==
    [state |-> st, mode |-> mode, ret |-> ret, calls |-> calls, nms |-> <<>>,
     feats |-> <<>>, probs |-> <<>>, boxp |-> <<>>, anchors |-> <<>>, bboxes |-> <<>>,
     dec |-> <<>>, cand |-> <<>>,
     nmsOut |-> <<>>, result |-> <<>>]

\* line 213-226
forward_training(n, hasTargets) ==
    IF UsedLevels(n) = 0 THEN FwdRec("RuntimeError", "train", "none", PredCalls)
    ELSE IF ~hasTargets THEN FwdRec("TypeError", "train", "none", PredCalls)
    ELSE FwdRec("ok", "train", "loss", PredCalls \o <<"criterion">>)

\* line 213-222, 227-248
forward_eval(n, feats, anchors, probs, boxp) ==
    IF UsedLevels(n) = 0 THEN FwdRec("RuntimeError", "eval", "none", PredCalls)
    ELSE IF Len(boxp) # Len(anchors) \/ Len(probs) # Len(boxp)
    THEN \* the decoder, or the cat of ids, scores and boxes, sees tensors of
         \* different lengths
         FwdRec("RuntimeError", "eval", "none", PredCalls \o <<"anchor_generators">>)
    ELSE
    LET bboxes == ForwardBoxes(boxp, anchors)
        dec == ForwardClsDecode(probs)
        cand == ForwardCandidates(n, dec, bboxes)
        nmsOut == IF NmsEnabled(n) THEN ForwardNms(n, cand) ELSE cand
        calls == PredCalls \o DecodeCalls
        base == [FwdRec("ok", "eval", "detections", calls) EXCEPT
                   !.nms = <<n.nms_thresh, n.nms_topk, n.post_nms>>,
                   !.feats = feats, !.probs = probs, !.boxp = boxp, !.anchors = anchors,
                   !.bboxes = bboxes, !.dec = dec, !.cand = cand]
    IN  IF ~NmsEnabled(n)
        THEN [base EXCEPT !.result = cand]
        ELSE IF ~PostNmsApplies(n)
        THEN [base EXCEPT !.calls = calls \o <<"box_nms">>,
                          !.nmsOut = nmsOut, !.result = nmsOut]
        ELSE IF ~NarrowFits(nmsOut, n.post_nms)
        THEN [base EXCEPT !.state = "RuntimeError", !.ret = "none",
                          !.calls = calls \o <<"box_nms", "narrow">>,
                          !.nmsOut = nmsOut]
        ELSE [base EXCEPT !.calls = calls \o <<"box_nms", "narrow">>,
                          !.nmsOut = nmsOut, !.result = Narrow(nmsOut, n.post_nms)]

forward ==
    /\ net.built
    /\ ctor.state = "none"
    /\ fwd.state = "none"
    /\ api.op = "none"
    /\ \/ /\ TakesTrainingBranch(net)
          /\ \E hasTargets \in BOOLEAN : fwd' = forward_training(net, hasTargets)
       \/ /\ ~TakesTrainingBranch(net)
          /\ \E H \in ImageSides, W \in ImageSides :
               /\ H <= W
               /\ NumAnchors(net, FeatureSizes(net, H, W)) <= MaxAnchors
               /\ NumAnchors(net, FeatureSizes(net, H, W)) * net.classes <= MaxRows
               /\ \E anchors \in {ForwardAnchors(net, FeatureSizes(net, H, W))} :
                  \E probs \in [1..NumClsRows(net, FeatureSizes(net, H, W))
                                   -> ProbVecs(net.classes + 1)],
                     boxp \in BoxPreds(NumAnchors(net, FeatureSizes(net, H, W))) :
                    fwd' = forward_eval(net, FeatureSizes(net, H, W), anchors, probs, boxp)
    /\ UNCHANGED <<net, ctor, coder, mtg, api, tt, run>>

\* validate: the caller takes the outputs (or the exception) of one call
validate_step ==
    /\ fwd.state # "none"
    /\ fwd' = [state |-> "none"]
    /\ UNCHANGED <<net, ctor, coder, mtg, api, tt, run>>

NoFwd == [state |-> "none"]
NoCoder == [op |-> "none"]
NoMtg == [built |-> FALSE]
NoTt == [state |-> "none"]
NoRun == [pc |-> "none"]

Init ==
    /\ net = NoNet
    /\ ctor = NoCtor
    /\ fwd = NoFwd
    /\ coder = NoCoder
    /\ mtg = NoMtg
    /\ api = NoApi
    /\ tt = NoTt
    /\ run = NoRun

Next ==
    \/ get_ssd
    \/ get_ssd_return
    \/ \E c \in SetNmsCalls : set_nms_call(c)
    \/ \E k \in 1..MaxClasses : reset_class(k)
    \/ api_return
    \/ \E b \in BOOLEAN : SetMode(b)
    \/ forward
    \/ validate_step

Spec == Init /\ [][Next]_vars

----------------------------------------------------------------------------
(* The anchor generator and the box coder called on their own *)

\* the level of the worked example: size_range (30, 60), ratios [1, 2, 0.5],
\* step 8
ExampleLayer ==
    [size |-> <<30, 60>>, ratios |-> <<RatioOne, <<2, 1>>, <<1, 2>>>>, step |-> 8,
     alloc |-> AnchorAllocSize]

\* the example and the first two levels of a detector, for every ratio list
GenLayers ==
    {ExampleLayer}
    \cup {[size |-> <<SizeTable(i), SizeTable(i + 1)>>, ratios |-> r,
            step |-> StepTable(i), alloc |-> AllocSize(i)] : i \in 1..2, r \in RatioLists}

GenGrids == (1..MaxGenGrid) \X (1..MaxGenGrid)

\* anchors as corner boxes, one of them without width, and offsets
CoderAnchors == {<<0, 0, 800, 400>>, <<400, 200, 1200, 1000>>, <<400, 0, 400, 800>>}
CoderOffsets ==
    (-MaxOff..MaxOff) \X (-MaxOff..MaxOff) \X (-MaxExp..MaxExp) \X (-MaxExp..MaxExp)

\* anchor_generator(feature map of h x w cells)
generate_anchors ==
    /\ coder.op = "none"
    /\ \E layer \in GenLayers, hw \in GenGrids :
          coder' = [op |-> "anchors", layer |-> layer, hw |-> hw,
                    anchors |-> AnchorGrid(layer, hw)]
    /\ UNCHANGED <<net, ctor, fwd, mtg, api, tt, run>>

\* bbox_decoder(offset, anchor)
bbox_decode ==
    /\ coder.op = "none"
    /\ \E a \in CoderAnchors, off \in CoderOffsets :
          coder' = [op |-> "decode", anchor |-> a, off |-> off,
                    box |-> ForwardBoxes(<<off>>, <<a>>)[1]]
    /\ UNCHANGED <<net, ctor, fwd, mtg, api, tt, run>>

\* the decoded box encoded against the same anchor
bbox_encode ==
    /\ coder.op = "decode"
    /\ coder' = [op |-> "encode", anchor |-> coder.anchor, off |-> coder.off,
                 box |-> coder.box,
                 back |-> NormalizedBoxCenterEncoder(coder.box, coder.anchor)]
    /\ UNCHANGED <<net, ctor, fwd, mtg, api, tt, run>>

coder_return ==
    /\ coder.op \in {"anchors", "encode"}
    /\ coder' = NoCoder
    /\ UNCHANGED <<net, ctor, fwd, mtg, api, tt, run>>

NextCoder ==
    \/ generate_anchors
    \/ bbox_decode
    \/ bbox_encode
    \/ coder_return

SpecCoder == Init /\ [][NextCoder]_vars

----------------------------------------------------------------------------
(* MaskTargetGenerator (src/model/models_zoo/mask_rcnn/rcnn_target.py) *)

\* line 26-31
MtgConfigs ==
    [num_images : 1..MaxImages, num_rois : 1..MaxRois,
     num_classes : 1..MaxMaskClasses, mask_size : {7, 14}]

NoMtgCall == [state |-> "none"]

MaskTargetGenerator_init(cfg) ==
    /\ ~mtg.built
    /\ mtg' = [built |-> TRUE, num_images |-> cfg.num_images, num_rois |-> cfg.num_rois,
               num_classes |-> cfg.num_classes, mask_size |-> cfg.mask_size,
               call |-> NoMtgCall]
    /\ UNCHANGED <<net, ctor, fwd, coder, api, tt, run>>

\* torch.split returns a tuple of tensors, so isinstance(x, list) at line 56
\* is false
TorchSplitIsList == FALSE

\* line 54-59, _split(x, axis=0, num_outputs, squeeze_axis=True) of a tensor
\* with B entries along axis 0: split_size = B // num_outputs; a split_size
\* of 0 is refused by torch.split; on a list every chunk is squeezed, on
\* anything else squeeze_ is called on the container itself.  The result is
\* the exception raised, if any, and the sizes of the chunks along axis 0, 0
\* standing for a chunk whose axis was squeezed away.
_split(B, num_outputs) ==
    IF B \div num_outputs = 0 THEN [raised |-> "RuntimeError", chunks |-> <<>>]
    ELSE IF ~TorchSplitIsList THEN [raised |-> "AttributeError", chunks |-> <<>>]
    ELSE [raised |-> "none",
          chunks |-> [j \in 1..CeilDiv(B, B \div num_outputs) |->
             IF Min(B \div num_outputs, B - (j - 1) * (B \div num_outputs)) = 1
             THEN 0
             ELSE Min(B \div num_outputs, B - (j - 1) * (B \div num_outputs))]]

\* roi_align(gt_mask, padded_rois, mask_size, 1.0, sampling_ratio=2): the
\* crop of ground-truth mask gt of image b resampled in the window of ROI i
Crop(b, gt, i) == [image |-> b, gt |-> gt, roi |-> i]

\* line 67: torch.where(matches >= 0, matches, zeros_like(matches))
ClampMatch(m) == IF m >= 0 THEN m ELSE 0

\* line 75-93 for image b: the c-th channel of the stack is filled in the
\* iteration cid = c of range(1, num_classes + 1), so it has index c - 1 in
\* the returned tensor
ImageTargets(g, b, rois) ==
    [i \in 1..Len(rois) |-> [c \in 1..g.num_classes |-> Crop(b, ClampMatch(rois[i].match), i)]]

ImageMasks(g, b, rois) ==
    [i \in 1..Len(rois) |-> [c \in 1..g.num_classes |-> IF rois[i].cls = c THEN 1 ELSE 0]]

InputsAfter_ClampInPlace(inp) ==
    [inp EXCEPT !.rois = [b \in DOMAIN inp.rois |-> [i \in DOMAIN inp.rois[b] |->
                             [inp.rois[b][i] EXCEPT !.match = ClampMatch(@)]]]]

\* the caller's tensors after the call: unsqueeze (line 62) and torch.split
\* (line 55) make views, torch.where (line 67) allocates its result, and the
\* names gt_masks, rois, matches and cls_targets are rebound locally; the
\* squeeze_ of lines 57 and 80 changes the shape of a view or of a new
\* tensor.  No statement writes into the storage of an argument.
InputsAfter(inp) == inp

\* the call of forward: inp.rois[b][i] is ROI i of image b with its entry of
\* matches and of cls_targets, inp.gts the number of ground-truth masks;
\* after is what the caller's tensors hold when the call has ended
MtgCall(st, inp) ==
    [state |-> st, rois |-> inp.rois, gts |-> inp.gts,
     after |-> InputsAfter(inp),
     mask_targets |-> <<>>, mask_masks |-> <<>>]

\* line 34-98
MaskTargetGenerator_forward(g, inp) ==
    IF _split(Len(inp.rois), g.num_images).raised # "none"
    THEN MtgCall(_split(Len(inp.rois), g.num_images).raised, inp)
    ELSE IF \E j \in DOMAIN _split(Len(inp.rois), g.num_images).chunks :
               _split(Len(inp.rois), g.num_images).chunks[j] # 0
    THEN \* a chunk of several images keeps its batch axis and line 77
         \* concatenates tensors of different rank
         MtgCall("RuntimeError", inp)
    ELSE [MtgCall("ok", inp) EXCEPT
            !.mask_targets = [b \in 1..Len(inp.rois) |-> ImageTargets(g, b, inp.rois[b])],
            !.mask_masks = [b \in 1..Len(inp.rois) |-> ImageMasks(g, b, inp.rois[b])]]

\* matches in [-1, M), cls_targets from 0 (no class) to num_classes
RoiCases(gts, classes) ==
    {[match |-> m, cls |-> t] : m \in {-1, 0, gts - 1}, t \in {0, 1, classes}}

MtgInputs(classes) ==
    UNION {[rois : [1..BN[1] -> [1..BN[2] -> RoiCases(gts, classes)]], gts : {gts}] :
              BN \in {x \in (1..MaxImages) \X (1..MaxRois) : x[1] * x[2] <= MaxRois},
              gts \in 1..MaxGt}

mtg_forward ==
    /\ mtg.built
    /\ mtg.call.state = "none"
    /\ \E inp \in MtgInputs(mtg.num_classes) :
          mtg' = [mtg EXCEPT !.call = MaskTargetGenerator_forward(mtg, inp)]
    /\ UNCHANGED <<net, ctor, fwd, coder, api, tt, run>>

\* the caller takes the outputs or sees the exception
mtg_return ==
    /\ mtg.built
    /\ mtg.call.state # "none"
    /\ mtg' = [mtg EXCEPT !.call = NoMtgCall]
    /\ UNCHANGED <<net, ctor, fwd, coder, api, tt, run>>

NextMask ==
    \/ \E cfg \in MtgConfigs : MaskTargetGenerator_init(cfg)
    \/ mtg_forward
    \/ mtg_return

SpecMask == Init /\ [][NextMask]_vars

----------------------------------------------------------------------------
(* Properties *)

CtorDone == ctor.state # "none"

\* forward ran in evaluation mode and assembled the candidate rows
EvalDone == fwd.state # "none" /\ fwd.mode = "eval" /\ Len(fwd.cand) > 0

\* ... and passed them through box_nms
NmsRan == EvalDone /\ Len(fwd.nmsOut) > 0

Valid(r) == r.id >= 0

\* position of row r when rows are ordered by descending score, equal
\* scores by ascending original index
Rank(rows, r) ==
    1 + Cardinality({q \in 1..Len(rows) :
                        \/ rows[q].score > rows[r].score
                        \/ rows[q].score = rows[r].score /\ q < r})

ScoreOrder(rows) ==
    LET rank == [r \in 1..Len(rows) |-> Rank(rows, r)]
    IN  [i \in 1..Len(rows) |-> rows[CHOOSE r \in 1..Len(rows) : rank[r] = i]]

\* row i of the ordered rows is among the first topk valid ones
InTopK(S, i, topk) == topk < 0 \/ Cardinality({j \in 1..i : Valid(S[j])}) <= topk

\* row i was a candidate of the greedy pass and came out invalidated
Suppressed(S, out, i, topk) == Valid(S[i]) /\ InTopK(S, i, topk) /\ ~Valid(out[i])

CountRows(rows, P(_)) == Cardinality({i \in 1..Len(rows) : P(rows[i])})

\* C1 (as claimed): a construction whose sizes or list-of-lists ratios do
\* not match the number of feature levels L raises during construction (the
\* claim names an assertion; any exception is accepted here), and a
\* constructed SSD has one prediction layer per feature level, no list
\* having been cut to a common length.
C1_MismatchAlwaysAsserts ==
    CtorDone =>
        LET a == ctor.args
            L == NumChannels(a)
        IN  /\ (a.lenSizes # L + 1 \/ (a.ratios.nested /\ Len(a.ratios.elems) # L))
                  => ctor.state # "ok"
            /\ ctor.state = "ok" => Len(net.layers) = L

\* C2: whenever the computed num_layers is <= 0 (network None with empty
\* ratios, or len(features) + len(num_filters) - 1 + int(global_pool) <= 0)
\* the constructor raises and no model exists.
C2_NoLayersNoModel ==
    CtorDone =>
        LET a == ctor.args
            nonPositive ==
                \/ ~a.network /\ Len(a.ratios.elems) = 0
                \/ a.network /\ a.nFeat + a.nFilt - 1 + (IF a.gp THEN 1 ELSE 0) <= 0
        IN  nonPositive => (ctor.state \notin {"ok", "none"} /\ ~net.built)

\* the construction that reaches the last assertion: num_layers = 0, one
\* size, a flat ratio list propagated to zero layers
C2_Witness ==
    /\ CtorDone
    /\ ctor.args.network
    /\ ctor.args.nFeat + ctor.args.nFilt - 1 + (IF ctor.args.gp THEN 1 ELSE 0) = 0
    /\ ctor.args.lenSizes = 1
    /\ ctor.args.ratios.isList /\ ~ctor.args.ratios.nested
    /\ ctor.state = "AssertionError"

\* C3: in evaluation mode with nms_thresh <= 0 or nms_thresh >= 1 forward
\* returns all N * num_classes candidate rows unchanged and in order,
\* whatever nms_topk and post_nms are.
C3_PassThrough ==
    (EvalDone /\ (net.nms_thresh <= 0 \/ net.nms_thresh >= ThreshDen)) =>
        /\ fwd.state = "ok"
        /\ fwd.result = fwd.cand
        /\ Len(fwd.result) = Len(fwd.probs) * net.classes

\* pass-through with post_nms smaller than the number of rows and two
\* same-class rows that NMS would have ordered or suppressed
C3_Witness ==
    /\ EvalDone
    /\ net.nms_thresh >= ThreshDen
    /\ net.post_nms > 0 /\ net.post_nms < Len(fwd.result)
    /\ ScoreOrder(fwd.cand) # fwd.cand

\* C4 (as claimed): with NMS enabled, post_nms = p > 0 returns the p
\* top-scoring surviving rows (no valid row left out scores above a returned
\* row), all rows when fewer than p candidates exist; post_nms = -1
\* returns every row.
C4_PostNmsKeepsTopSurvivors ==
    (EvalDone /\ ThreshDen > net.nms_thresh /\ net.nms_thresh > 0) =>
        /\ fwd.state = "ok"
        /\ net.post_nms = -1 => fwd.result = fwd.nmsOut
        /\ net.post_nms > 0 =>
              IF Len(fwd.cand) < net.post_nms
              THEN fwd.result = fwd.nmsOut
              ELSE /\ Len(fwd.result) = net.post_nms
                   /\ \A i \in 1..Len(fwd.result) :
                         \E j \in 1..Len(fwd.nmsOut) : fwd.result[i] = fwd.nmsOut[j]
                   /\ \A j \in 1..Len(fwd.nmsOut) :
                         Valid(fwd.nmsOut[j]) =>
                            \/ \E i \in 1..Len(fwd.result) : fwd.result[i] = fwd.nmsOut[j]
                            \/ \A i \in 1..Len(fwd.result) :
                                  fwd.nmsOut[j].score <= fwd.result[i].score

\* C5: with the model in training mode forward returns only the loss pair
\* and runs neither anchor generation, decoding, NMS nor the post_nms cut;
\* those run only in evaluation mode.
C5_TrainingReturnsLossOnly ==
    fwd.state # "none" =>
        /\ net.training =>
              /\ fwd.ret \in {"loss", "none"}
              /\ fwd.state = "ok" => fwd.ret = "loss"
              /\ fwd.result = <<>> /\ fwd.cand = <<>>
        /\ \A i \in 1..Len(fwd.calls) :
              fwd.calls[i] \in {"anchor_generators", "bbox_decoder", "cls_decoder",
                                "box_nms", "narrow"} => ~net.training
        /\ fwd.ret = "detections" => ~net.training

C5_Witness ==
    /\ fwd.state = "ok"
    /\ net.training
    /\ fwd.ret = "loss"
    /\ fwd.calls[Len(fwd.calls)] = "criterion"

\* C6: for every anchor and foreground class c the decoder emits
\* score = prob[anchor, c] and id = c when the score is strictly above
\* 0.01, else -1 (also at exactly 0.01); ids and scores are N x (C-1).
C6_ClassDecoding ==
    EvalDone =>
        /\ Len(fwd.dec) = Len(fwd.probs)
        /\ \A a \in 1..Len(fwd.probs) :
              /\ Len(fwd.dec[a]) = Len(fwd.probs[a]) - 1
              /\ Len(fwd.probs[a]) = net.classes + 1
              /\ \A c \in 1..(Len(fwd.probs[a]) - 1) :
                    /\ fwd.dec[a][c].score = fwd.probs[a][c + 1]
                    /\ fwd.dec[a][c].id =
                          IF 100 * fwd.probs[a][c + 1] > ScoreDen THEN c ELSE -1

\* one score exactly at 0.01 decoded to -1 and one above it decoded to c
C6_Witness ==
    /\ EvalDone
    /\ \E a \in 1..Len(fwd.dec) : \E c \in 1..Len(fwd.dec[a]) :
          100 * fwd.dec[a][c].score = ScoreDen /\ fwd.dec[a][c].id = -1
    /\ \E a \in 1..Len(fwd.dec) : \E c \in 1..Len(fwd.dec[a]) :
          100 * fwd.dec[a][c].score > ScoreDen /\ fwd.dec[a][c].id = c

\* C7: the candidate list of an image has N * num_classes rows and row
\* i*N + a holds the (id, score) of class column i of anchor a with the
\* decoded box of anchor a.
C7_CandidateLayout ==
    EvalDone =>
        LET N == Len(fwd.probs)
        IN  /\ Len(fwd.cand) = N * net.classes
            /\ Len(fwd.bboxes) = N
            /\ \A i \in 0..(net.classes - 1) : \A a \in 1..N :
                  /\ fwd.cand[i * N + a].id = fwd.dec[a][i + 1].id
                  /\ fwd.cand[i * N + a].score = fwd.dec[a][i + 1].score
                  /\ fwd.cand[i * N + a].box = fwd.bboxes[a]

\* an anchor with two foreground scores above the threshold: two valid rows
\* with the same box and different class ids
C7_Witness ==
    /\ EvalDone
    /\ net.classes >= 2
    /\ \E a \in 1..Len(fwd.probs) :
          /\ Valid(fwd.cand[a]) /\ Valid(fwd.cand[Len(fwd.probs) + a])
          /\ fwd.cand[a].id # fwd.cand[Len(fwd.probs) + a].id
          /\ fwd.cand[a].box = fwd.cand[Len(fwd.probs) + a].box

\* C8: after NMS two surviving rows of one class have IoU below
\* nms_thresh, and every suppressed row has a kept row of its class with
\* IoU at or above nms_thresh and a score at least as high.
C8_SurvivorsDoNotOverlap ==
    NmsRan =>
        \A S \in {ScoreOrder(fwd.cand)}, out \in {fwd.nmsOut} :
            /\ \A i, j \in 1..Len(out) :
                  (i # j /\ Valid(out[i]) /\ out[i].id = out[j].id)
                     => ~IoUAtLeast(out[i].box, out[j].box, net.nms_thresh)
            /\ \A i \in 1..Len(out) :
                  Suppressed(S, out, i, net.nms_topk) =>
                     \E j \in 1..Len(out) :
                        /\ Valid(out[j]) /\ out[j].id = S[i].id
                        /\ out[j].score >= S[i].score
                        /\ IoUAtLeast(out[j].box, S[i].box, net.nms_thresh)

\* a row suppressed by a kept row whose IoU with it is exactly nms_thresh
C8_Witness ==
    /\ NmsRan
    /\ \E i, j \in 1..Len(fwd.nmsOut) :
          /\ Suppressed(ScoreOrder(fwd.cand), fwd.nmsOut, i, net.nms_topk)
          /\ Valid(fwd.nmsOut[j]) /\ fwd.nmsOut[j].id = ScoreOrder(fwd.cand)[i].id
          /\ ThreshDen * Inter(fwd.nmsOut[j].box, fwd.nmsOut[i].box)
                = net.nms_thresh * (Area(fwd.nmsOut[j].box) + Area(fwd.nmsOut[i].box)
                                      - Inter(fwd.nmsOut[j].box, fwd.nmsOut[i].box))

\* C9: NMS returns as many rows as it was given; every row keeps its score
\* and box in its slot of the score order and keeps its class id or gets -1.
C9_NmsKeepsShape ==
    NmsRan =>
        \A S \in {ScoreOrder(fwd.cand)} :
            /\ Len(fwd.nmsOut) = Len(fwd.cand)
            /\ \A i \in 1..Len(fwd.cand) :
                  /\ i <= Len(fwd.nmsOut)
                  /\ fwd.nmsOut[i].score = S[i].score
                  /\ fwd.nmsOut[i].box = S[i].box
                  /\ fwd.nmsOut[i].id \in {S[i].id, -1}

\* at least two rows suppressed, all rows still there
C9_Witness ==
    /\ NmsRan
    /\ fwd.state = "ok"
    /\ CountRows(fwd.nmsOut, Valid) + 2 <= CountRows(fwd.cand, Valid)
    /\ net.post_nms = -1
    /\ Len(fwd.result) = Len(fwd.probs) * net.classes

\* C10: a row of class -1 stays in the output and suppresses nothing, and
\* rows of different classes never suppress each other: a valid candidate
\* with no earlier valid candidate of its own class at IoU >= nms_thresh
\* is kept.
C10_InertRows ==
    NmsRan =>
        \A S \in {ScoreOrder(fwd.cand)}, out \in {fwd.nmsOut} :
            /\ \A i \in 1..Len(S) :
                  ~Valid(S[i]) => (i <= Len(out) /\ out[i] = S[i])
            /\ \A i \in 1..Len(S) :
                  ( /\ Valid(S[i])
                    /\ InTopK(S, i, net.nms_topk)
                    /\ ~\E j \in 1..(i - 1) :
                           /\ S[j].id = S[i].id
                           /\ IoUAtLeast(S[j].box, S[i].box, net.nms_thresh) )
                  => (i <= Len(out) /\ out[i] = S[i])

\* a kept row that overlaps an earlier row of another class and a row of
\* class -1
C10_Witness ==
    /\ NmsRan
    /\ \E i \in 1..Len(fwd.nmsOut) : \E j \in 1..(i - 1), k \in 1..Len(fwd.nmsOut) :
          /\ Valid(fwd.nmsOut[i])
          /\ Valid(fwd.nmsOut[j]) /\ fwd.nmsOut[j].id # fwd.nmsOut[i].id
          /\ IoUAtLeast(fwd.nmsOut[j].box, fwd.nmsOut[i].box, net.nms_thresh)
          /\ ScoreOrder(fwd.cand)[k].id = -1
          /\ IoUAtLeast(fwd.nmsOut[k].box, fwd.nmsOut[i].box, net.nms_thresh)

\* C11: NMS is idempotent.  Applying NMS with the same overlap threshold and
\* topk to its own output returns that output: the same rows survive and no
\* survivor of the first pass is suppressed by the second.
C11_NmsIdempotent ==
    NmsRan =>
        \A out \in {fwd.nmsOut} : \A again \in {ForwardNms(net, out)} :
            /\ Len(again) = Len(out)
            /\ \A i \in 1..Len(out) :
                  /\ Valid(again[i]) <=> Valid(out[i])
                  /\ again[i] = out[i]

\* a first pass that suppressed a row for overlap, cut a valid row off
\* behind the top k and left a survivor
C11_Witness ==
    /\ NmsRan
    /\ net.nms_topk >= 0
    /\ \E i, j, k \in 1..Len(fwd.nmsOut) :
          /\ Valid(ScoreOrder(fwd.cand)[i])
          /\ ~InTopK(ScoreOrder(fwd.cand), i, net.nms_topk)
          /\ IoUAtLeast(fwd.nmsOut[k].box, fwd.nmsOut[i].box, net.nms_thresh)
          /\ fwd.nmsOut[k].id = ScoreOrder(fwd.cand)[i].id
          /\ Suppressed(ScoreOrder(fwd.cand), fwd.nmsOut, j, net.nms_topk)
          /\ Valid(fwd.nmsOut[k])

\* candidates p < q of one valid class with equal scores, both among the
\* first topk valid rows, overlapping at or above the threshold
TiedPair(cand, rank, p, q) ==
    /\ p < q
    /\ cand[p].score = cand[q].score
    /\ Valid(cand[p]) /\ cand[p].id = cand[q].id
    /\ InTopK(ScoreOrder(cand), rank[q], net.nms_topk)
    /\ IoUAtLeast(cand[p].box, cand[q].box, net.nms_thresh)

\* C12: NMS orders its rows by descending score with equal scores in the
\* order of their original index, so the output is fixed by the input; of
\* two overlapping candidates of one class with equal scores the one with
\* the lower original index is the one kept: the later one survives only
\* if an earlier kept row suppressed the first.
C12_TieBreakByIndex ==
    NmsRan =>
        \A cand \in {fwd.cand}, out \in {fwd.nmsOut} :
        \A rank \in {[r \in 1..Len(fwd.cand) |-> Rank(fwd.cand, r)]} :
            /\ Len(out) = Len(cand)
            /\ \A r \in 1..Len(cand) :
                  /\ out[rank[r]].score = cand[r].score
                  /\ out[rank[r]].box = cand[r].box
            /\ \A p, q \in 1..Len(cand) :
                  TiedPair(cand, rank, p, q) =>
                     /\ rank[p] < rank[q]
                     /\ Valid(out[rank[p]]) => ~Valid(out[rank[q]])
                     /\ Valid(out[rank[q]]) =>
                           \E j \in 1..(rank[p] - 1) :
                              /\ Valid(out[j]) /\ out[j].id = cand[p].id
                              /\ IoUAtLeast(out[j].box, cand[p].box, net.nms_thresh)

\* two overlapping candidates with equal scores and different boxes: the
\* first is kept and the second suppressed
C12_Witness ==
    /\ NmsRan
    /\ \E p, q \in 1..Len(fwd.cand) :
          /\ TiedPair(fwd.cand, [r \in 1..Len(fwd.cand) |-> Rank(fwd.cand, r)], p, q)
          /\ fwd.cand[p].box # fwd.cand[q].box
          /\ Valid(fwd.nmsOut[Rank(fwd.cand, p)])
          /\ ~Valid(fwd.nmsOut[Rank(fwd.cand, q)])

\* anchors the generator emits for cell (row, col) of an h x w grid
AnchorsOfCell(layer, hw, row, col) ==
    Cardinality({i \in 1..Len(AnchorGrid(layer, hw)) :
                    AnchorGrid(layer, hw)[i].row = row /\ AnchorGrid(layer, hw)[i].col = col})

\* the generator emits perCell anchors for every cell of an h x w grid
GeneratorEmits(layer, hw, perCell) ==
    /\ num_depth(layer) = perCell
    /\ \A row \in 0..(hw[1] - 1), col \in 0..(hw[2] - 1) :
          AnchorsOfCell(layer, hw, row, col) = perCell

\* the predictors of line 157-159 emit perCell predictions per cell
PredictorsEmit(layer, classes, perCell) ==
    /\ ClassPredictorChannels(layer, classes) = perCell * (classes + 1)
    /\ BoxPredictorChannels(layer) = perCell * 4

C14_ExampleAnchors ==
    coder.op = "anchors" =>
        \A depth \in {Len(coder.anchors) \div (coder.hw[1] * coder.hw[2])} :
            /\ Len(coder.anchors) = coder.hw[1] * coder.hw[2] * depth
            /\ \A row \in 0..(coder.hw[1] - 1), col \in 0..(coder.hw[2] - 1),
                    d \in 1..depth :
                  coder.anchors[(row * coder.hw[2] + col) * depth + d].centre2
                     = <<(2 * col + 1) * coder.layer.step, (2 * row + 1) * coder.layer.step>>
            /\ (coder.layer = ExampleLayer /\ coder.hw = <<4, 4>>) =>
                  /\ depth = 4
                  /\ Len(coder.anchors) = 64
                  /\ coder.anchors[1].centre2 = <<2 * 4, 2 * 4>>
                  /\ \A c \in 0..15 :
                        /\ coder.anchors[4 * c + 1].sq = <<30 * 60, 30 * 60>>
                        /\ coder.anchors[4 * c + 2].sq = <<30 * 30, 30 * 30>>
                        /\ coder.anchors[4 * c + 3].sq = <<30 * 30 * 2, (30 * 30) \div 2>>
                        /\ coder.anchors[4 * c + 4].sq = <<(30 * 30) \div 2, 30 * 30 * 2>>

\* the generator called on the example
C14_Witness ==
    /\ coder.op = "anchors"
    /\ coder.layer = ExampleLayer
    /\ coder.hw = <<4, 4>>
    /\ Len(coder.anchors) = 64
    /\ coder.anchors[64].centre2 = <<56, 56>>

\* C16: for an anchor of positive width and height, decoding an offset and
\* encoding the decoded box against the same anchor gives the offset back.
C16_DecodeEncodeRoundTrip ==
    ( /\ coder.op = "encode"
      /\ coder.anchor[3] > coder.anchor[1]
      /\ coder.anchor[4] > coder.anchor[2] )
        => coder.back = coder.off

\* a round trip of an offset that moves the centre, widens the box and
\* flattens it
C16_Witness ==
    /\ coder.op = "encode"
    /\ coder.anchor[3] > coder.anchor[1]
    /\ coder.anchor[4] > coder.anchor[2]
    /\ coder.off[1] # 0 /\ coder.off[2] # 0
    /\ coder.off[3] > 0 /\ coder.off[4] < 0
    /\ coder.back = coder.off
    /\ coder.box # coder.anchor

\* position p comes before position q in the order level, row, column,
\* anchor depth
PositionBefore(p, q) ==
    \/ p.level < q.level
    \/ p.level = q.level /\ p.row < q.row
    \/ p.level = q.level /\ p.row = q.row /\ p.col < q.col
    \/ p.level = q.level /\ p.row = q.row /\ p.col = q.col
          /\ p.channel \div 4 < q.channel \div 4

----------------------------------------------------------------------------
(* The predefined configurations and SSD.anchors() *)

\* ratios=[[1, 2, 0.5]] + [[1, 2, 0.5, 3, 1.0 / 3]] * n + [[1, 2, 0.5]] * 2
RatiosThree == <<RatioOne, <<2, 1>>, <<1, 2>>>>
RatiosFive == <<RatioOne, <<2, 1>>, <<1, 2>>, <<3, 1>>, <<1, 3>>>>
ZooRatios(n) == <<RatiosThree>> \o [i \in 1..n |-> RatiosFive] \o <<RatiosThree, RatiosThree>>

\* steps=[8, 16, 32, 64, 100, 300], [8, ..., 512] and [16, ..., 512]
Steps300 == <<8, 16, 32, 64, 100, 300>>
Steps512 == <<8, 16, 32, 64, 128, 256, 512>>
Steps512From16 == <<16, 32, 64, 128, 256, 512>>

\* sizes in units of 1/25 pixel, in which all of them are whole numbers
Sizes512From16 == <<1280, 2560, 4735, 6910, 9088, 11265, 12300>>

\* line 342-586: the arguments the eight model functions pass to get_ssd
PredefinedConfigs ==
    { [name |-> "ssd_300_vgg16_atrous_voc", base_size |-> 300,
       sizes |-> <<750, 1500, 2775, 4050, 5325, 6600, 7875>>,
       ratios |-> ZooRatios(3), steps |-> Steps300],
      [name |-> "ssd_300_vgg16_atrous_coco", base_size |-> 300,
       sizes |-> <<525, 1125, 2475, 3825, 5175, 6525, 7875>>,
       ratios |-> ZooRatios(3), steps |-> Steps300],
      [name |-> "ssd_512_vgg16_atrous_voc", base_size |-> 512,
       sizes |-> <<1280, 1920, 3840, 5760, 7680, 9600, 11520, 13440>>,
       ratios |-> ZooRatios(4), steps |-> Steps512],
      [name |-> "ssd_512_vgg16_atrous_coco", base_size |-> 512,
       sizes |-> <<1280, 1920, 3840, 5760, 7680, 9600, 11520, 13440>>,
       ratios |-> ZooRatios(4), steps |-> Steps512],
      [name |-> "ssd_512_resnet50_v1_voc", base_size |-> 512,
       sizes |-> Sizes512From16, ratios |-> ZooRatios(3), steps |-> Steps512From16],
      [name |-> "ssd_512_resnet50_v1_coco", base_size |-> 512,
       sizes |-> <<1280, 3328, 5376, 7424, 9472, 11520, 13568>>,
       ratios |-> ZooRatios(3), steps |-> Steps512From16],
      [name |-> "ssd_512_mobilenet1_0_voc", base_size |-> 512,
       sizes |-> Sizes512From16, ratios |-> ZooRatios(3), steps |-> Steps512From16],
      [name |-> "ssd_512_mobilenet1_0_coco", base_size |-> 512,
       sizes |-> Sizes512From16, ratios |-> ZooRatios(3), steps |-> Steps512From16] }

\* a detector of one to MaxLen layers built by a caller of get_ssd for
\* another base size
CustomConfigs ==
    {[name |-> "custom", base_size |-> b,
      sizes |-> [i \in 1..(k + 1) |-> 25 * SizeTable(i)],
      ratios |-> [i \in 1..k |-> RatiosThree],
      steps |-> [i \in 1..k |-> StepTable(i)]] : b \in 1..MaxBaseSize, k \in 1..MaxLen}

\* line 151-156 for the layers of a configuration
ZooLayers(cfg) ==
    [i \in 1..Len(cfg.ratios) |->
        [size |-> <<cfg.sizes[i], cfg.sizes[i + 1]>>, ratios |-> cfg.ratios[i],
         step |-> cfg.steps[i], alloc |-> AllocSize(i)]]

\* the feature maps of a base_size x base_size image, level l at stride
\* steps[l]
ZooFeatureSizes(cfg) ==
    [l \in 1..Len(cfg.steps) |->
        <<CeilDiv(cfg.base_size, cfg.steps[l]), CeilDiv(cfg.base_size, cfg.steps[l])>>]

\* line 177-181: s = base_size / 8 is halved j times; s // 2 > 0 is
\* base_size >= 16 * 2^j and ceil(s) is ceil(base_size / (8 * 2^j))
RECURSIVE AnchorsFeatures(_, _)
AnchorsFeatures(base_size, j) ==
    IF base_size \div (16 * Pow2(j)) > 0
    THEN <<CeilDiv(base_size, 8 * Pow2(j))>> \o AnchorsFeatures(base_size, j + 1)
    ELSE <<1>>

\* line 183-184: zip(features, self.anchor_generators), as <<h, w>> of the
\* grid each generator is called on
AnchorsGrids(base_size, layers) ==
    [l \in 1..Min(Len(AnchorsFeatures(base_size, 0)), Len(layers)) |->
        <<AnchorsFeatures(base_size, 0)[l], AnchorsFeatures(base_size, 0)[l]>>]

\* the number of anchors the generators emit for the grids
RECURSIVE AnchorCount(_, _)
AnchorCount(layers, grids) ==
    IF Len(grids) = 0 \/ Len(layers) = 0 THEN 0
    ELSE grids[1][1] * grids[1][2] * num_depth(layers[1])
         + AnchorCount(Tail(layers), Tail(grids))

\* one of the model functions, or a caller of get_ssd, builds a detector
zoo_get_ssd ==
    /\ api.op = "none"
    /\ ~net.built
    /\ \E cfg \in PredefinedConfigs \cup CustomConfigs :
          api' = [op |-> "model", cfg |-> cfg, layers |-> ZooLayers(cfg)]
    /\ UNCHANGED <<net, ctor, fwd, coder, mtg, tt, run>>

\* line 176-186
anchors ==
    /\ api.op = "model"
    /\ api' = [op |-> "anchors", cfg |-> api.cfg, layers |-> api.layers,
               loops |-> Len(AnchorsFeatures(api.cfg.base_size, 0)) - 1,
               grids |-> AnchorsGrids(api.cfg.base_size, api.layers),
               count |-> AnchorCount(api.layers, AnchorsGrids(api.cfg.base_size, api.layers))]
    /\ UNCHANGED <<net, ctor, fwd, coder, mtg, tt, run>>

zoo_return ==
    /\ api.op = "anchors"
    /\ api' = NoApi
    /\ UNCHANGED <<net, ctor, fwd, coder, mtg, tt, run>>

NextZoo ==
    \/ zoo_get_ssd
    \/ anchors
    \/ zoo_return

SpecZoo == Init /\ [][NextZoo]_vars

----------------------------------------------------------------------------
(* train_segmentation_debug.py and eval_ssd.py, one process per rank *)

\* the command line and the environment of a run: world_size is WORLD_SIZE
\* (1 when unset), cuda is "CUDA was asked for and is available", batches the
\* length of each rank's data loader
RunArgs ==
    {a \in [script : {"train_segmentation_debug", "eval_ssd"},
            eval : BOOLEAN, no_val : BOOLEAN,
            start_epoch : {0, 1}, epochs : 0..MaxEpochs,
            world_size : 1..MaxRanks, cuda : BOOLEAN, batches : 1..MaxBatches] :
        a.script = "eval_ssd" =>
            (~a.eval /\ ~a.no_val /\ a.start_epoch = 0 /\ a.epochs = 0)}

\* train_segmentation_debug.py line 204-210, eval_ssd.py line 109-115
Distributed(a) ==
    IF a.cuda THEN a.world_size > 1 ELSE FALSE

\* processes in one group; without a group every process runs the script on
\* its own, and one of them is followed
NumProcs(a) == IF Distributed(a) THEN a.world_size ELSE 1

\* is_main_process(): rank 0, the r-th process having rank r - 1
IsMain(r) == r = 1

\* def validation(self) at line 110 takes no argument besides self; lines
\* 221 and 229 pass one
ValidationParams == 0
ValidationArgsPassed == 1
ValidationCall ==
    IF ValidationArgsPassed = ValidationParams THEN "ok" ELSE "TypeError"

\* the statements that call a collective operation, and the operation
CollectiveOp(pc) ==
    CASE pc \in {"sync_init", "sync_epoch", "sync_end"} -> "synchronize"
      [] pc = "backward" -> "all_reduce"
      [] pc = "all_gather" -> "all_gather"
      [] pc = "accumulate" -> "accumulate_metric"
      [] pc = "accumulate_prediction" -> "accumulate_prediction"
      [] OTHER -> "none"

GuardedByMain_SyncToo(pc) ==
    pc \in {"save", "report_loss", "report_metric", "report", "sync_epoch"}

\* the statements inside an `if is_main_process():`
GuardedByMain(pc) == pc \in {"save", "report_loss", "report_metric", "report"}

Terminated(pc) == pc \in {"exit", "TypeError"}

\* process r executes the statement at p.pc
Goto(p, pc, evs) == [p EXCEPT !.pc = pc, !.log = p.log \o evs]

ExecTrain(a, p, r) ==
    CASE p.pc = "init" ->              \* line 212-214
            IF Distributed(a) THEN Goto(p, "sync_init", <<"init_process_group">>)
            ELSE Goto(p, "trainer", <<>>)
      [] p.pc = "sync_init" ->         \* line 215
            Goto(p, "trainer", <<"synchronize">>)
      [] p.pc = "trainer" ->           \* line 217-218, 226
            [Goto(p, IF a.eval THEN "eval_validation" ELSE "loop_head", <<"Trainer">>)
                EXCEPT !.epoch = a.start_epoch]
      [] p.pc = "eval_validation" ->   \* line 221, 110-120
            IF ValidationCall = "ok" THEN Goto(p, "exit", <<"validation">>)
            ELSE Goto(p, ValidationCall, <<>>)
      [] p.pc = "loop_head" ->         \* line 226-227, 89-91
            IF p.epoch < a.epochs THEN [Goto(p, "training", <<>>) EXCEPT !.batch = 0]
            ELSE Goto(p, "exit", <<>>)
      [] p.pc = "training" ->          \* line 92
            IF p.batch < a.batches THEN Goto(p, "backward", <<>>)
            ELSE Goto(p, "save", <<>>)
      [] p.pc = "backward" ->          \* line 93-100
            [Goto(p, "training", <<"optimizer_step">>) EXCEPT !.batch = p.batch + 1]
      [] p.pc = "save" ->              \* line 106-107
            Goto(p, "validation", IF IsMain(r) THEN <<"save_checkpoint">> ELSE <<>>)
      [] p.pc = "validation" ->        \* line 228-229, 110-120
            IF a.no_val THEN Goto(p, "sync_epoch", <<>>)
            ELSE IF ValidationCall = "ok" THEN Goto(p, "sync_epoch", <<"validation">>)
            ELSE Goto(p, ValidationCall, <<>>)
      [] p.pc = "sync_epoch" ->        \* line 230
            Goto(p, "all_gather", IF GuardedByMain(p.pc) /\ ~IsMain(r) THEN <<>>
                                  ELSE <<"synchronize">>)
      [] p.pc = "all_gather" ->        \* line 231
            Goto(p, "report_loss", <<"all_gather">>)
      [] p.pc = "report_loss" ->       \* line 232-235
            Goto(p, IF a.no_val THEN "next_epoch" ELSE "accumulate",
                 IF IsMain(r) THEN <<"print_loss">> ELSE <<>>)
      [] p.pc = "accumulate" ->        \* line 236
            Goto(p, "report_metric", <<"accumulate_metric">>)
      [] p.pc = "report_metric" ->     \* line 237-239
            Goto(p, "next_epoch", IF IsMain(r) THEN <<"print_metric">> ELSE <<>>)
      [] p.pc = "next_epoch" ->        \* line 226
            [Goto(p, "loop_head", <<>>) EXCEPT !.epoch = p.epoch + 1]

ExecEval(a, p, r) ==
    CASE p.pc = "init" ->              \* eval_ssd.py line 117-119
            IF Distributed(a) THEN Goto(p, "sync_init", <<"init_process_group">>)
            ELSE Goto(p, "get_model", <<>>)
      [] p.pc = "sync_init" ->         \* line 120
            Goto(p, "get_model", <<"synchronize">>)
      [] p.pc = "get_model" ->         \* line 123-134, 51-55
            [Goto(p, "validate", <<"get_model", "set_nms">>) EXCEPT !.batch = 0]
      [] p.pc = "validate" ->          \* line 57-79
            IF p.batch < a.batches
            THEN [Goto(p, "validate", <<"forward">>) EXCEPT !.batch = p.batch + 1]
            ELSE Goto(p, "sync_end", <<>>)
      [] p.pc = "sync_end" ->          \* line 138
            Goto(p, "accumulate_prediction", <<"synchronize">>)
      [] p.pc = "accumulate_prediction" ->   \* line 139
            Goto(p, "report", <<"accumulate_prediction">>)
      [] p.pc = "report" ->            \* line 140-142
            Goto(p, "exit", IF IsMain(r) THEN <<"print_metric">> ELSE <<>>)

Exec(a, p, r) ==
    IF a.script = "eval_ssd" THEN ExecEval(a, p, r) ELSE ExecTrain(a, p, r)

\* process r is about to call a collective operation of its group
AtCollective(a, p, r) ==
    /\ Distributed(a)
    /\ CollectiveOp(p.pc) # "none"
    /\ GuardedByMain(p.pc) => IsMain(r)

\* the launcher starts the processes
launch ==
    /\ run.pc = "none"
    /\ \E a \in RunArgs :
          run' = [pc |-> "running", args |-> a,
                  procs |-> [r \in 1..NumProcs(a) |->
                               [pc |-> "init", epoch |-> 0, batch |-> 0, log |-> <<>>]]]
    /\ UNCHANGED <<net, ctor, fwd, coder, mtg, api, tt>>

\* a process executes a statement that needs no other process
local_step(r) ==
    /\ run.pc = "running"
    /\ r \in DOMAIN run.procs
    /\ ~Terminated(run.procs[r].pc)
    /\ ~AtCollective(run.args, run.procs[r], r)
    /\ run' = [run EXCEPT !.procs[r] = Exec(run.args, run.procs[r], r)]
    /\ UNCHANGED <<net, ctor, fwd, coder, mtg, api, tt>>

\* a collective operation completes when every process of the group has
\* called the same operation
collective_step ==
    /\ run.pc = "running"
    /\ \A r \in DOMAIN run.procs :
          /\ AtCollective(run.args, run.procs[r], r)
          /\ CollectiveOp(run.procs[r].pc) = CollectiveOp(run.procs[1].pc)
    /\ run' = [run EXCEPT !.procs = [r \in DOMAIN run.procs |->
                                         Exec(run.args, run.procs[r], r)]]
    /\ UNCHANGED <<net, ctor, fwd, coder, mtg, api, tt>>

\* every process has exited or died of its exception
run_end ==
    /\ run.pc = "running"
    /\ \A r \in DOMAIN run.procs : Terminated(run.procs[r].pc)
    /\ run' = NoRun
    /\ UNCHANGED <<net, ctor, fwd, coder, mtg, api, tt>>

NextRun ==
    \/ launch
    \/ \E r \in 1..MaxRanks : local_step(r)
    \/ collective_step
    \/ run_end

SpecRun == Init /\ [][NextRun]_vars

----------------------------------------------------------------------------
(* transform_test (src/data/transforms/yolo.py) *)

\* an element of the iterable: picture p as a PIL image, or an object that
\* is no PIL image
PilImage(p) == [pil |-> TRUE, picture |-> p]
NotAnImage == [pil |-> FALSE, picture |-> 0]

\* the imgs argument: one PIL image, or an iterable of some kind holding
\* items; a list or a tuple can be iterated again from its start, a one-shot
\* iterator (a generator, map, zip) yields each item once
TtInputs ==
    {[kind |-> "image", items |-> <<PilImage(p)>>] : p \in 1..MaxPictures}
    \cup {[kind |-> k, items |-> it] :
             k \in {"list", "tuple", "iterator"},
             it \in UNION {[1..n -> {PilImage(p) : p \in 1..MaxPictures} \cup {NotAnImage}] :
                             n \in 0..MaxImgs}}

\* line 48-49
WrapSingle(imgs) ==
    IF imgs.kind = "image" THEN [kind |-> "list", items |-> imgs.items] ELSE imgs

\* a for loop over imgs that has consumed `used` items in earlier loops: the
\* items this loop sees
LoopItems(imgs, used) ==
    IF imgs.kind = "iterator" THEN SubSeq(imgs.items, used + 1, Len(imgs.items))
    ELSE imgs.items

\* line 50-51: the items the first loop consumes, up to and including the
\* first one that fails the assertion
RECURSIVE FirstNonImage(_, _)
FirstNonImage(items, i) ==
    IF i > Len(items) THEN 0
    ELSE IF ~items[i].pil THEN i
    ELSE FirstNonImage(items, i + 1)

\* line 56-59: the resized picture as uint8 array, and as normalized tensor
\* with a leading batch axis (line 60)
OrigOf(img) == [what |-> "orig", picture |-> img.picture]
TensorOf(img) == [what |-> "tensor", picture |-> img.picture]

TtRec(st, imgs, single, tensors, origs) ==
    [state |-> st, imgs |-> imgs, single |-> single, tensors |-> tensors, origs |-> origs]

\* line 15-64
transform_test(imgs) ==
    IF FirstNonImage(LoopItems(WrapSingle(imgs), 0), 1) # 0
    THEN TtRec("AssertionError", imgs, FALSE, <<>>, <<>>)
    ELSE TtRec("ok", imgs,
               Len(LoopItems(WrapSingle(imgs), Len(WrapSingle(imgs).items))) = 1,
               [i \in 1..Len(LoopItems(WrapSingle(imgs), Len(WrapSingle(imgs).items))) |->
                   TensorOf(LoopItems(WrapSingle(imgs), Len(WrapSingle(imgs).items))[i])],
               [i \in 1..Len(LoopItems(WrapSingle(imgs), Len(WrapSingle(imgs).items))) |->
                   OrigOf(LoopItems(WrapSingle(imgs), Len(WrapSingle(imgs).items))[i])])

transform_test_call ==
    /\ tt.state = "none"
    /\ \E imgs \in TtInputs : tt' = transform_test(imgs)
    /\ UNCHANGED <<net, ctor, fwd, coder, mtg, api, run>>

\* the caller takes the pair, the two lists or the exception
transform_test_return ==
    /\ tt.state # "none"
    /\ tt' = NoTt
    /\ UNCHANGED <<net, ctor, fwd, coder, mtg, api, run>>

NextTransform ==
    \/ transform_test_call
    \/ transform_test_return

SpecTransform == Init /\ [][NextTransform]_vars

----------------------------------------------------------------------------
(* Claims about MaskTargetGenerator *)

\* forward has been called with inputs of the configured batch: B = num_images
\* images of N = num_rois ROIs each
MtgCalled ==
    /\ mtg.built
    /\ mtg.call.state # "none"
    /\ Len(mtg.call.rois) = mtg.num_images
    /\ Len(mtg.call.rois[1]) = mtg.num_rois

\* the shape of a returned tensor: images, ROIs, class channels, and the two
\* sides of the resampled mask
MtgShape(t) == <<Len(t), Len(t[1]), Len(t[1][1]), mtg.mask_size, mtg.mask_size>>

\* C17: for inputs rois (B,N,4), gt_masks (B,M,H,W), matches (B,N) and
\* cls_targets (B,N), forward returns mask targets and masks, both of shape
\* (num_images, num_rois, num_classes, mask_size, mask_size).
C17_ForwardReturnsConfiguredShapes ==
    MtgCalled =>
        /\ mtg.call.state = "ok"
        /\ MtgShape(mtg.call.mask_targets)
             = <<mtg.num_images, mtg.num_rois, mtg.num_classes, mtg.mask_size, mtg.mask_size>>
        /\ MtgShape(mtg.call.mask_masks) = MtgShape(mtg.call.mask_targets)

\* an all-zero mask of mask_size by mask_size, which is no crop of any mask
ZeroMask == [image |-> 0, gt |-> -1, roi |-> 0]

\* the indices, counted from 0 as in the returned tensor, of the class
\* channels of ROI i of image b that are not all zero
NonzeroChannels(t, b, i) == {c - 1 : c \in {k \in DOMAIN t[b][i] : t[b][i][k] # ZeroMask}}

\* the indices, counted from 0, of the class channels of ROI i of image b
\* whose validity mask is 1
ActiveChannels(b, i) ==
    {c - 1 : c \in {k \in DOMAIN mtg.call.mask_masks[b][i] : mtg.call.mask_masks[b][i][k] = 1}}

\* C18: in the returned mask target tensor, each ROI has nonzero data only in
\* the class channel given by its cls_targets entry; every other class
\* channel of that ROI is zero.
C18_OnlyTargetChannelNonzero ==
    MtgCalled =>
        /\ mtg.call.state = "ok"
        /\ \A b \in DOMAIN mtg.call.mask_targets : \A i \in DOMAIN mtg.call.mask_targets[b] :
             /\ Cardinality(NonzeroChannels(mtg.call.mask_targets, b, i)) <= 1
             /\ NonzeroChannels(mtg.call.mask_targets, b, i)
                  \subseteq ActiveChannels(b, i)

\* C19: the active class channel of an ROI is the one whose index equals its
\* cls_targets value t (cls_targets = 1 with num_classes = 3 activates channel
\* 1), and at most one channel is active per ROI.
C19_ActiveChannelIsClsTarget ==
    MtgCalled =>
        /\ mtg.call.state = "ok"
        /\ \A b \in DOMAIN mtg.call.mask_masks : \A i \in DOMAIN mtg.call.mask_masks[b] :
             /\ Cardinality(ActiveChannels(b, i)) <= 1
             /\ ActiveChannels(b, i) \subseteq {mtg.call.rois[b][i].cls}
             /\ mtg.call.rois[b][i].cls \in 0..(mtg.num_classes - 1)
                  => ActiveChannels(b, i) = {mtg.call.rois[b][i].cls}

\* C20: an ROI whose matches entry is negative is resampled from the image's
\* ground-truth mask 0, and its validity mask is 0 in every class channel
\* whatever its cls_targets value is.
C20_UnmatchedRoiIsMaskedOut ==
    MtgCalled =>
        /\ mtg.call.state = "ok"
        /\ \A b \in DOMAIN mtg.call.mask_masks : \A i \in DOMAIN mtg.call.mask_masks[b] :
             mtg.call.rois[b][i].match < 0 =>
                /\ \A c \in DOMAIN mtg.call.mask_targets[b][i] :
                      mtg.call.mask_targets[b][i][c] \in {ZeroMask, Crop(b, 0, i)}
                /\ ActiveChannels(b, i) = {}

\* the fields of the generator object
MtgSelf(g) == <<g.num_images, g.num_rois, g.num_classes, g.mask_size>>

----------------------------------------------------------------------------
(* Claims about reset_class, flat ratios and set_nms *)

\* C22: after reset_class(classes) the model's categories are the new list:
\* num_classes is its length and every class predictor and the class decoder
\* are sized for len(classes) + 1 outputs per anchor.
C22_ResetClassReplacesClasses ==
    (net.built /\ api.op = "reset_class") =>
        /\ net.classes = api.classes
        /\ \A l \in DOMAIN net.layers :
              ClassPredictorChannels(net.layers[l], net.classes)
                 = num_depth(net.layers[l]) * (api.classes + 1)

\* the constructor was called with a flat list of ratios, one more size than
\* layers, and steps and channels for every layer
FlatRatiosCall ==
    /\ ctor.state # "none"
    /\ ctor.args.ratios.isList
    /\ ~ctor.args.ratios.nested
    /\ NumLayers(ctor.args) >= 1
    /\ ctor.args.lenSizes = NumLayers(ctor.args) + 1
    /\ ctor.args.lenSteps = NumLayers(ctor.args)
    /\ NumChannels(ctor.args) = NumLayers(ctor.args)

\* C23: a flat list of ratios is propagated to all layers: construction
\* succeeds for any num_layers >= 1 with matching sizes, and every layer's
\* anchor generator receives that same list.
C23_FlatRatiosPropagated ==
    FlatRatiosCall =>
        /\ ctor.state = "ok"
        /\ net.built
        /\ Len(net.layers) = NumLayers(ctor.args)
        /\ \A l \in DOMAIN net.layers : net.layers[l].ratios = ctor.args.ratios.elems

----------------------------------------------------------------------------
(* Claims about transform_test *)

\* transform_test was called with k PIL images, alone or in an iterable
TtCalledWithImages ==
    /\ tt.state # "none"
    /\ \A i \in DOMAIN tt.imgs.items : tt.imgs.items[i].pil

\* C24: transform_test returns one normalized tensor and one original image
\* per input image, in input order, for any iterable of k PIL images (lists,
\* tuples and one-shot iterators alike); for exactly one image it returns a
\* single pair, also when the image came inside a one-element list.
C24_OneTensorPerImage ==
    TtCalledWithImages =>
        /\ tt.state = "ok"
        /\ Len(tt.tensors) = Len(tt.imgs.items)
        /\ Len(tt.origs) = Len(tt.imgs.items)
        /\ \A i \in DOMAIN tt.imgs.items :
              /\ tt.tensors[i] = TensorOf(tt.imgs.items[i])
              /\ tt.origs[i] = OrigOf(tt.imgs.items[i])
        /\ tt.single <=> (Len(tt.imgs.items) = 1)

----------------------------------------------------------------------------
(* Claims about set_nms and the constructed layers *)

\* the value set_nms is claimed to store for a parameter: the argument of
\* the call, or the default 0.45, 400, 100 when the call omits it
LastCallValue(c, name, i) ==
    IF name \in c.given THEN c.vals[i]
    ELSE <<DefaultNmsThresh, DefaultNmsTopk, DefaultPostNms>>[i]

NmsOf(n) == <<n.nms_thresh, n.nms_topk, n.post_nms>>

\* C25: set_nms changes only nms_thresh, nms_topk and post_nms; the values
\* used by the next forward are the arguments of the last call, an omitted
\* argument taking its default and not the value set earlier, so after
\* validate's set_nms(nms_thresh=0.45, nms_topk=400) post_nms is 100.
C25_SetNmsLastCallWins ==
    [][/\ (api.op = "none" /\ api'.op = "set_nms") =>
            /\ NmsOf(net') = <<LastCallValue(api'.call, "nms_thresh", 1),
                               LastCallValue(api'.call, "nms_topk", 2),
                               LastCallValue(api'.call, "post_nms", 3)>>
            /\ api'.call = ValidateSetNms => net'.post_nms = 100
            /\ [net' EXCEPT !.nms_thresh = net.nms_thresh, !.nms_topk = net.nms_topk,
                            !.post_nms = net.post_nms] = net
       /\ (net.built /\ net'.built /\ ~(api.op = "none" /\ api'.op = "set_nms")) =>
            NmsOf(net') = NmsOf(net)
       /\ (fwd.state = "none" /\ fwd'.state = "ok" /\ fwd'.mode = "eval") =>
            fwd'.nms = NmsOf(net)
      ]_vars

\* validate's call on a detector, which now returns at most 100 rows
C25_Witness ==
    /\ net.built
    /\ api.op = "set_nms"
    /\ api.call = ValidateSetNms
    /\ NmsOf(net) = <<45, 400, 100>>

\* C26: after every successful construction the numbers of anchor
\* generators, class predictors and box predictors (one of each per entry of
\* layers) equal num_layers; a steps or channel list shorter than num_layers
\* never yields a model with fewer prediction layers.
C26_OnePredictionLayerPerLayer ==
    net.built =>
        /\ Len(net.layers) = net.num_layers
        /\ (ctor.state = "ok" /\ Min(ctor.args.lenSteps, NumChannels(ctor.args)) < net.num_layers)
              => Len(net.layers) >= net.num_layers

----------------------------------------------------------------------------
(* Claims about anchors() and the anchor allocation *)

\* C27: for each of the eight predefined configurations the grids anchors()
\* synthesises equal the feature-map sizes ceil(base_size/step) forward sees
\* for a base_size x base_size input, so both produce the same number of
\* anchors in the same order; the halving loop ends for every positive
\* base_size.
C27_AnchorsAgreesWithForward ==
    api.op = "anchors" =>
        /\ api.loops <= api.cfg.base_size
        /\ api.cfg \in PredefinedConfigs =>
              /\ api.grids = ZooFeatureSizes(api.cfg)
              /\ api.count = AnchorCount(api.layers, ZooFeatureSizes(api.cfg))

\* C28: the per-level anchor allocation size starts at 128 and is halved
\* with a floor of 16 for each following level (128, 64, 32, 16, 16, ...);
\* for each of the eight predefined configurations at its base size every
\* level's feature grid ceil(base_size/step) is no larger than the level's
\* allocation size.
C28_AllocationCoversGrids ==
    api.op \in {"model", "anchors"} =>
        /\ \A l \in DOMAIN api.layers :
              api.layers[l].alloc = Max(128 \div Pow2(l - 1), 16)
        /\ api.cfg \in PredefinedConfigs =>
              \A l \in DOMAIN api.layers :
                 /\ ZooFeatureSizes(api.cfg)[l][1] <= api.layers[l].alloc
                 /\ ZooFeatureSizes(api.cfg)[l][2] <= api.layers[l].alloc

\* the seven-level configuration: 64 cells against 128 at the first level,
\* 1 cell against the floor of 16 at the last
C28_Witness ==
    /\ api.op = "model"
    /\ api.cfg.name = "ssd_512_vgg16_atrous_voc"
    /\ Len(api.layers) = 7
    /\ ZooFeatureSizes(api.cfg)[1] = <<64, 64>>
    /\ api.layers[1].alloc = 128
    /\ api.layers[7].alloc = 16

----------------------------------------------------------------------------
(* Claims about the training and evaluation scripts *)

\* every process of the run has ended
RunOver ==
    /\ run.pc = "running"
    /\ \A r \in DOMAIN run.procs : Terminated(run.procs[r].pc)

\* what the main process does before the epochs: the process group, if any,
\* and the Trainer
ExpectedSetup(a) ==
    (IF Distributed(a) THEN <<"init_process_group", "synchronize">> ELSE <<>>)
    \o <<"Trainer">>

\* one epoch of the main process in the order of the claim
ExpectedEpoch(a) ==
    [i \in 1..a.batches |-> "optimizer_step"]
    \o <<"save_checkpoint", "validation", "synchronize", "all_gather", "print_loss",
         "accumulate_metric", "print_metric">>

\* C29: in train_segmentation_debug with validation enabled, every epoch
\* from start_epoch to epochs - 1 runs training over all batches, checkpoint
\* save (main process only), validation, synchronisation, loss and metric
\* report, in this order, and the run completes the last epoch; in --eval
\* mode only validation runs, with no optimizer step and no checkpoint save.
C29_EpochOrder ==
    (RunOver /\ run.args.script = "train_segmentation_debug") =>
        /\ (~run.args.eval /\ ~run.args.no_val) =>
              /\ run.procs[1].pc = "exit"
              /\ run.procs[1].log =
                    ExpectedSetup(run.args)
                    \o Repeat(ExpectedEpoch(run.args),
                              run.args.epochs - run.args.start_epoch)
        /\ run.args.eval =>
              /\ run.procs[1].pc = "exit"
              /\ run.procs[1].log = ExpectedSetup(run.args) \o <<"validation">>

\* the collective calls a process has completed, in order; optimizer_step
\* stands for the gradient all-reduce of the wrapped network's backward
CollectiveCalls(log) ==
    SelectSeq(log, LAMBDA ev : ev \in {"synchronize", "optimizer_step", "all_gather",
                                        "accumulate_metric", "accumulate_prediction"})

IsPrefix(u, v) == Len(u) <= Len(v) /\ SubSeq(v, 1, Len(u)) = u

\* process r waits at a collective call that process q will never join: q
\* has ended, or waits at another operation
BlockedBy(r, q) ==
    /\ AtCollective(run.args, run.procs[r], r)
    /\ \/ Terminated(run.procs[q].pc)
       \/ /\ AtCollective(run.args, run.procs[q], q)
          /\ CollectiveOp(run.procs[q].pc) # CollectiveOp(run.procs[r].pc)

\* C30: in a distributed run of train_segmentation_debug or eval_ssd every
\* rank executes the same sequence of collective calls: no collective call
\* sits inside an is_main_process branch and no rank blocks at a collective
\* that another rank skips; distributed mode is only enabled together with
\* CUDA (WORLD_SIZE > 1 without CUDA runs non-distributed).
C30_SameCollectivesOnEveryRank ==
    run.pc = "running" =>
        /\ \A r \in DOMAIN run.procs, q \in DOMAIN run.procs :
              /\ \/ IsPrefix(CollectiveCalls(run.procs[r].log), CollectiveCalls(run.procs[q].log))
                 \/ IsPrefix(CollectiveCalls(run.procs[q].log), CollectiveCalls(run.procs[r].log))
              /\ ~BlockedBy(r, q)
              /\ (Terminated(run.procs[r].pc) /\ Terminated(run.procs[q].pc))
                    => CollectiveCalls(run.procs[r].log) = CollectiveCalls(run.procs[q].log)
        /\ \A r \in DOMAIN run.procs :
              CollectiveOp(run.procs[r].pc) # "none" => AtCollective(run.args, run.procs[r], r)
                                                         \/ ~Distributed(run.args)
        /\ Len(run.procs) > 1 => (run.args.cuda /\ run.args.world_size > 1)
        /\ ~run.args.cuda =>
              \A r \in DOMAIN run.procs :
                 \A i \in DOMAIN run.procs[r].log : run.procs[r].log[i] # "init_process_group"

\* a distributed training run of two ranks that has ended: rank 0 alone
\* saved the checkpoint, both ranks went through the same collectives
C30_Witness ==
    /\ run.pc = "running"
    /\ Len(run.procs) = 2
    /\ run.procs[1].pc = "exit"
    /\ run.procs[2].pc = "exit"
    /\ \E i \in DOMAIN run.procs[1].log : run.procs[1].log[i] = "save_checkpoint"
    /\ \A i \in DOMAIN run.procs[2].log : run.procs[2].log[i] # "save_checkpoint"
    /\ \E i \in DOMAIN run.procs[2].log : run.procs[2].log[i] = "all_gather"

====
